---- MODULE Spec2Model ----
(***************************************************************************)
(* fldd (src/fldd/main.c): the list of shared libraries a program needs,   *)
(* computed by reading the ELF image of the program and, recursively, of   *)
(* every library found for a DT_NEEDED name.                               *)
(*                                                                         *)
(* An image is modelled by its size, its ELF header fields and a sparse    *)
(* memory: address -> the structure that starts there.  Addresses are byte *)
(* offsets from base, so base = 0 and end = size.  The structure sizes and  *)
(* field offsets are those of the LP64 build, the Elf64 structures.        *)
(***************************************************************************)
EXTENDS Integers, Sequences, FiniteSets, TLC

\* ---------------------------------------------------------------- constants

\* sizeof(Elf64_Ehdr), sizeof(Elf64_Phdr), sizeof(Elf64_Shdr), sizeof(Elf64_Dyn)
SizeofEhdr == 64
SizeofPhdr == 56
SizeofShdr == 64
SizeofDyn == 16
\* the page size: mmap maps whole pages, the bytes after the file are zero
PageSize == 4096

PT_LOAD == 1
PT_INTERP == 3
SHT_NULL == 0
SHT_STRTAB == 3
SHT_DYNAMIC == 6
DT_NULL == 0
DT_NEEDED == 1
DT_RPATH == 15
DT_RUNPATH == 29

STDOUT_FILENO == 1

LIBDIR == "/usr/local/lib"

\* default_lib_paths[], in the order of the array
default_lib_paths ==
    << "/lib", "/lib/x86_64-linux-gnu", "/lib64", "/usr/lib",
       "/usr/lib/x86_64-linux-gnu", LIBDIR, "/usr/local/lib" >>

Range(s) == {s[i] : i \in 1..Len(s)}

\* ------------------------------------------------------------------ Storage

\* A Storage list is the sequence of its names, head first.

\* storage_find: 1 if found
storage_find(ptr, name) == \E i \in 1..Len(ptr) : ptr[i] = name

storage_add_nofind(head, name) == <<name>> \o head

storage_add_tail(head, name) ==
    IF storage_find(head, name) THEN head ELSE Append(head, name)

storage_add_front(head, name) ==
    <<name>> \o SelectSeq(head, LAMBDA n : n # name)

\* storage_add: the new list; a new entry becomes the head
storage_add(head, name) ==
    IF storage_find(head, name) THEN head ELSE <<name>> \o head

RECURSIVE lib_paths_init_from(_, _)
lib_paths_init_from(i, head) ==
    IF i > Len(default_lib_paths) THEN head
    ELSE lib_paths_init_from(i + 1, storage_add(head, default_lib_paths[i]))

\* lib_paths_init: the registry after the defaults were added in array order
lib_paths_init == lib_paths_init_from(1, <<>>)

\* ------------------------------------------------------------------- images

\* What starts at an address: tag is p_type, sh_type or d_tag; off is p_offset,
\* sh_offset or d_un.d_ptr; size is sh_size; str is the NUL-terminated string.
ZeroCell == [tag |-> 0, off |-> 0, size |-> 0, str |-> ""]
JunkCell == [tag |-> SHT_DYNAMIC, off |-> 0, size |-> SizeofDyn, str |-> "junk"]

PageUp(n) == ((n + PageSize - 1) \div PageSize) * PageSize

\* the structure the image holds at address a; the bytes after the file are zero
Cell(img, a) ==
    IF a \in DOMAIN img.mem /\ a < img.size THEN img.mem[a] ELSE ZeroCell

\* One read of n bytes at address a, of the thing called what.
Rd(a, n, what) == [a |-> a, n |-> n, what |-> what]
\* the read touches a byte outside [base, end)
IsOob(img, r) == r.a < 0 \/ r.a + r.n > img.size
\* the read touches a byte outside the pages mmap mapped
IsFault(img, r) == r.a < 0 \/ r.a + r.n > PageUp(img.size)

\* Layout of a well-formed image: program headers after the ELF header, then
\* the interpreter strings, the string table, the dynamic section and, at
\* the end (tail bytes before the end of the file), three section headers:
\* SHT_NULL, SHT_STRTAB, SHT_DYNAMIC.
PhAddr(i) == SizeofEhdr + SizeofPhdr * (i - 1)
InterpAddr(j) == 256 + 32 * (j - 1)
StrTabAddr == 512
StrOff(k) == 32 * k
DynAddr == 1024
ShAddr(size, tail, i) == size - tail - 3 * SizeofShdr + SizeofShdr * i

\* interps: the PT_INTERP strings; dyn: the dynamic entries, each
\* [tag, str], in the order of the section.
MkElf(interps, dyn, size, tail) ==
    LET phnum == Len(interps) + 1
        ph == [a \in {PhAddr(i) : i \in 1..phnum} |->
                 LET i == (a - SizeofEhdr) \div SizeofPhdr + 1
                 IN  IF i = 1
                     THEN [ZeroCell EXCEPT !.tag = PT_LOAD]
                     ELSE [ZeroCell EXCEPT !.tag = PT_INTERP,
                                           !.off = InterpAddr(i - 1)]]
        is == [a \in {InterpAddr(j) : j \in 1..Len(interps)} |->
                 [ZeroCell EXCEPT !.str = interps[(a - 256) \div 32 + 1]]]
        st == [a \in {StrTabAddr + StrOff(k) : k \in 1..Len(dyn)} |->
                 [ZeroCell EXCEPT !.str = dyn[(a - StrTabAddr) \div 32].str]]
        dy == [a \in {DynAddr + SizeofDyn * (k - 1) : k \in 1..Len(dyn)} |->
                 LET k == (a - DynAddr) \div SizeofDyn + 1
                 IN  [ZeroCell EXCEPT !.tag = dyn[k].tag, !.off = StrOff(k)]]
        sh == (ShAddr(size, tail, 0) :> [ZeroCell EXCEPT !.tag = SHT_NULL])
           @@ (ShAddr(size, tail, 1) :>
                 [ZeroCell EXCEPT !.tag = SHT_STRTAB, !.off = StrTabAddr])
           @@ (ShAddr(size, tail, 2) :>
                 [ZeroCell EXCEPT !.tag = SHT_DYNAMIC, !.off = DynAddr,
                                  !.size = SizeofDyn * (Len(dyn) + 1)])
    IN  [size |-> size, magic |-> TRUE, e_phnum |-> phnum,
         e_shoff |-> ShAddr(size, tail, 0), e_shnum |-> 3,
         mem |-> ph @@ is @@ st @@ dy @@ sh]

Needed(name) == [tag |-> DT_NEEDED, str |-> name]
Rpath(dir) == [tag |-> DT_RPATH, str |-> dir]
Runpath(dir) == [tag |-> DT_RUNPATH, str |-> dir]

\* A file: what access(R_OK), open, fstat and mmap answer, and the image.
MkFile(img) ==
    [access |-> TRUE, open |-> TRUE, fstat |-> TRUE, mmap |-> TRUE, img |-> img]

\* -------------------------------------------------------------- the files

Interp == "/lib64/ld-linux-x86-64.so.2"
Interp2 == "/lib/ld-musl-x86_64.so.1"
ProgP == "/bin/P"
LibA == "libA.so"
LibB == "libB.so"
DirD == "/opt/D"
DirE == "/opt/E"
PathA == "/usr/lib/libA.so"
PathB == "/lib/libB.so"

\* a file that ends with its section headers, and one that also ends a page
OrdSize == 23 * SizeofShdr
AlignedSize == PageSize

Good == MkElf(<<>>, <<Rpath(DirD), Needed(LibB)>>, OrdSize, 0)
GoodSh(i) == ShAddr(OrdSize, 0, i)

\* damaged files: what a truncated or corrupted libA.so can look like
Damaged ==
    << [MkFile(Good) EXCEPT !.open = FALSE],
       [MkFile(Good) EXCEPT !.fstat = FALSE],
       [MkFile(Good) EXCEPT !.mmap = FALSE],
       MkFile([Good EXCEPT !.size = 0, !.magic = FALSE]),
       MkFile([Good EXCEPT !.size = 3, !.magic = FALSE]),
       MkFile([Good EXCEPT !.magic = FALSE]),
       MkFile([Good EXCEPT !.size = 32]),
       MkFile([Good EXCEPT !.e_phnum = 40]),
       MkFile([Good EXCEPT !.e_phnum = 40, !.size = SizeofEhdr + 9 * SizeofPhdr]),
       MkFile([Good EXCEPT !.e_shoff = OrdSize + 1]),
       MkFile([Good EXCEPT !.e_shoff = OrdSize]),
       MkFile([Good EXCEPT !.e_shoff = -8]),
       MkFile([Good EXCEPT !.e_shnum = 1]),
       MkFile([Good EXCEPT !.e_shnum = 40]),
       MkFile([Good EXCEPT !.mem[GoodSh(1)].off = OrdSize + 1]),
       MkFile([Good EXCEPT !.mem[GoodSh(2)].off = OrdSize + 1]),
       MkFile([Good EXCEPT !.mem[GoodSh(2)].size = OrdSize]),
       MkFile([Good EXCEPT !.mem[GoodSh(2)].off = OrdSize - SizeofDyn,
                           !.mem[GoodSh(2)].size = 4 * SizeofDyn]),
       MkFile([Good EXCEPT !.mem[DynAddr].off = OrdSize]),
       MkFile([Good EXCEPT !.mem[DynAddr].off = OrdSize - StrTabAddr]),
       MkFile([Good EXCEPT !.mem[DynAddr + SizeofDyn].off = -StrTabAddr - 1]),
       MkFile([Good EXCEPT !.mem[DynAddr + SizeofDyn].off = OrdSize - StrTabAddr]),
       MkFile([Good EXCEPT !.mem[PhAddr(1)].tag = PT_INTERP,
                           !.mem[PhAddr(1)].off = OrdSize + 1]),
       MkFile([Good EXCEPT !.mem[PhAddr(1)].tag = PT_INTERP,
                           !.mem[PhAddr(1)].off = OrdSize]),
       MkFile(MkElf(<<Interp, Interp2>>, <<Rpath(DirD), Needed(LibB)>>,
                    OrdSize, 0)) >>

\* The description d of a filesystem: the dynamic entries p, a, b of the
\* program, of libA.so and of libB.so, the size of the files and the tail of
\* libB.so, the damage of libA.so (0: none, else Damaged[dmg]), and whether
\* files named -h and --help exist.  libA.so is in /usr/lib, /opt/D and
\* /opt/E; libB.so is in /lib and /opt/E.
Paths(d) ==
    {ProgP, Interp, PathA, DirD \o "/" \o LibA, DirE \o "/" \o LibA, PathB,
     DirE \o "/" \o LibB} \cup (IF d.help THEN {"-h", "--help"} ELSE {})

File(d, path) ==
    IF path = ProgP THEN MkFile(MkElf(<<Interp>>, d.p, d.size, 0))
    ELSE IF path \in {PathA, DirD \o "/" \o LibA, DirE \o "/" \o LibA}
    THEN IF d.dmg = 0 THEN MkFile(MkElf(<<>>, d.a, d.size, 0)) ELSE Damaged[d.dmg]
    ELSE IF path \in {PathB, DirE \o "/" \o LibB}
    THEN MkFile(MkElf(<<>>, d.b, d.size, d.tail))
    ELSE MkFile(MkElf(<<>>, <<>>, OrdSize, 0))

\* -------------------------------------------------------------------- state

VARIABLES
    fsd,         \* the filesystem, by its description (see File)
    argv,        \* argv[1..], the arguments after the program name
    env_quiet,   \* getenv("FIREJAIL_QUIET"): "NULL" when unset
    open_out,    \* what open(argv[2], O_CREAT | O_TRUNC | O_WRONLY) returns
    adjacent,    \* what lies after the mapped pages: "unmapped", "zero", "junk"
    pc,          \* main: "start", "resolving", "done", "exited", "crashed"
    exitCode,
    arg_quiet,
    fd,          \* main's fd
    libs,        \* the Dependency Set, head first
    lib_paths,   \* the Search-Path Registry, head first
    stack,       \* the frames of copy_libs_for_exe, innermost last
    stdout,      \* lines written to standard output
    outfile,     \* lines written to the output file
    stderr,      \* diagnostics, in order
    oob,         \* the reads that touched a byte outside [base, end)
    nfd,         \* descriptors copy_libs_for_exe holds open
    nmap,        \* mappings established and not yet unmapped
    badMunmap,   \* munmap calls on an address that is no mapping
    trace,       \* the calls made, in order: access, storage_find, scan
    prior        \* what the run before this one left (<<>>: there was none)

env == <<fsd, argv, env_quiet, open_out, adjacent, prior>>
vars == <<fsd, argv, env_quiet, open_out, adjacent, pc, exitCode, arg_quiet, fd,
          libs, lib_paths, stack, stdout, outfile, stderr, oob, nfd, nmap,
          badMunmap, trace, prior>>

NullPtr == -1

\* access(path, R_OK) == 0
Access(path) == path \in Paths(fsd) /\ File(fsd, path).access

AdjCell == IF adjacent = "junk" THEN JunkCell ELSE ZeroCell

\* the structure seen at a when the field [a + off, a + off + n) is read
View(img, a, off, n) ==
    IF IsFault(img, Rd(a + off, n, "")) THEN AdjCell ELSE Cell(img, a)

\* a field of the ELF header (it lies in the first page)
HdrVal(img, off, n, v) == IF off + n <= img.size THEN v ELSE 0

\* the string at address a, and the read that fetches it (with its NUL)
StrAt(img, a) == View(img, a, 0, 1).str
RdStr(img, a, what) == Rd(a, Len(StrAt(img, a)) + 1, what)

\* the first read of rs that faults (0: none)
FirstFault(img, rs) ==
    IF \E i \in 1..Len(rs) : IsFault(img, rs[i])
    THEN CHOOSE i \in 1..Len(rs) :
            /\ IsFault(img, rs[i])
            /\ \A j \in 1..(i - 1) : ~IsFault(img, rs[j])
    ELSE 0
\* SIGSEGV: a read outside the mapped pages with nothing mapped there
Crashes(img, rs) == adjacent = "unmapped" /\ FirstFault(img, rs) # 0
RealReads(img, rs) ==
    IF Crashes(img, rs) THEN SubSeq(rs, 1, FirstFault(img, rs)) ELSE rs
OobNames(img, rs) ==
    LET rr == RealReads(img, rs)
    IN  {rr[i].what : i \in {j \in 1..Len(rr) : IsOob(img, rr[j])}}

Diag(kind, name, exe) == [kind |-> kind, name |-> name, exe |-> exe]

\* a call: access(path, R_OK) and storage_find(libs, path) in
\* copy_libs_for_lib, and the call ("scan") of copy_libs_for_exe(path)
Call(ev, path) == [ev |-> ev, path |-> path]

\* the frame of a call copy_libs_for_exe(exe), before its first statement
NewFrame(exe) ==
    [exe |-> exe, pc |-> "open", f |-> FALSE, base |-> "NULL", e_phnum |-> 0,
     pbuf |-> 0, sbuf |-> 0, sections |-> 0, strbase |-> NullPtr,
     dbuf |-> 0, size |-> 0]

\* What one step of copy_libs_for_exe does: the reads it makes, the frame
\* after it, the two lists, the warnings (printed unless arg_quiet) and the
\* call it makes.
R0(t) == [reads |-> <<>>, fr |-> t, libs |-> libs, lib_paths |-> lib_paths,
          warn |-> <<>>, push |-> <<>>, calls |-> <<>>]

BadPtr(r, name) ==
    [r EXCEPT !.warn = Append(@, Diag("bad pointer", name, r.fr.exe))]
Goto(r, label) == [r EXCEPT !.fr.pc = label]
Reads(r, rs) == [r EXCEPT !.reads = @ \o rs]

\* ptr_ok that fails only where it warns
ptr_ok_quiet(ptr, size) == arg_quiet = 1 \/ (ptr >= 0 /\ ptr <= size)

\* ptr_ok: base = 0, end = size
ptr_ok(ptr, size) == ptr >= 0 /\ ptr <= size

\* -------------------------------------------------------- copy_libs_for_lib

RECURSIVE FirstHit(_, _)
\* the for loop: the first lib_path, from the head, with a readable
\* lib_path/lib; <<>> when there is none
FirstHit(paths, lib) ==
    IF paths = <<>> THEN <<>>
    ELSE LET fname == Head(paths) \o "/" \o lib
         IN  IF Access(fname) THEN <<fname>> ELSE FirstHit(Tail(paths), lib)

RECURSIVE Probes(_, _)
\* the access calls of the for loop, in order: to the first hit, or all
Probes(paths, lib) ==
    IF paths = <<>> THEN <<>>
    ELSE LET fname == Head(paths) \o "/" \o lib
         IN  <<Call("access", fname)>>
                \o (IF Access(fname) THEN <<>> ELSE Probes(Tail(paths), lib))

NotInLibs_always(r, fname) == TRUE

\* the guard of the recursion: the file found is not yet in libs
NotInLibs(r, fname) == ~storage_find(r.libs, fname)

\* copy_libs_for_lib(lib), called in step r of the frame r.fr
copy_libs_for_lib(r, lib) ==
    LET hit == FirstHit(r.lib_paths, lib)
        probed == [r EXCEPT !.calls = @ \o Probes(r.lib_paths, lib)]
        found == [probed EXCEPT !.calls = Append(@, Call("storage_find", hit[1]))]
    IN  IF hit = <<>>
        THEN [probed EXCEPT !.warn = Append(@, Diag("cannot find", lib, r.fr.exe))]
        ELSE IF NotInLibs(r, hit[1])
        THEN [found EXCEPT !.libs = storage_add(@, hit[1]),
                           !.push = <<NewFrame(hit[1])>>,
                           !.calls = Append(@, Call("scan", hit[1]))]
        ELSE found

\* -------------------------------------------------------- copy_libs_for_exe

\* lines 132-144: one turn of the program-header loop
PhdrStep(t, img) ==
    LET r1 == Reads([R0(t) EXCEPT !.fr.e_phnum = (t.e_phnum - 1) % 65536],
                    <<Rd(56, 2, "e_phnum")>>)
        p_type == View(img, t.pbuf, 0, 4).tag
        p_offset == View(img, t.pbuf, 8, 8).off
        r2 == Reads(r1, <<Rd(t.pbuf, 4, "p_type")>>)
        r3 == Reads(r2, <<Rd(t.pbuf + 8, 8, "p_offset")>>)
        next == [r2 EXCEPT !.fr.pbuf = t.pbuf + SizeofPhdr]
    IN  IF t.e_phnum = 0 THEN Goto(r1, "shdr")
        ELSE IF ~ptr_ok(t.pbuf, img.size) THEN Goto(BadPtr(r1, "pbuf"), "shdr")
        ELSE IF p_type # PT_INTERP THEN next
        ELSE IF ~ptr_ok(p_offset, img.size)
        THEN Goto(BadPtr(r3, "base + pbuf->p_offset"), "close")
        ELSE [Reads(r3, <<RdStr(img, p_offset, "interp")>>)
                 EXCEPT !.libs = storage_add(@, StrAt(img, p_offset)),
                        !.fr.pbuf = t.pbuf + SizeofPhdr]

\* lines 146-152: the section-header table
ShdrStart(t, img) ==
    LET e_shoff == HdrVal(img, 40, 8, img.e_shoff)
        e_shnum == HdrVal(img, 60, 2, img.e_shnum)
        r1 == Reads([R0(t) EXCEPT !.fr.sbuf = e_shoff], <<Rd(40, 8, "e_shoff")>>)
    IN  IF ~ptr_ok(e_shoff, img.size) THEN Goto(BadPtr(r1, "sbuf"), "close")
        ELSE Goto([Reads(r1, <<Rd(60, 2, "e_shnum")>>)
                      EXCEPT !.fr.sections = e_shnum], "strtab")

\* lines 153-166: one turn of the loop that finds the strings section
StrtabStep(t, img) ==
    LET r0 == R0(t)
        r1 == [r0 EXCEPT !.fr.sections = t.sections - 1]
        sh_type == View(img, t.sbuf, 4, 4).tag
        strbase == View(img, t.sbuf, 24, 8).off
        r2 == Reads(r1, <<Rd(t.sbuf + 4, 4, "sh_type")>>)
        r3 == Reads(r2, <<Rd(t.sbuf + 24, 8, "sh_offset")>>)
        e_shnum == HdrVal(img, 60, 2, img.e_shnum)
    IN  IF t.sections <= 0 THEN Goto(r1, "error_close")
        ELSE IF ~ptr_ok(t.sbuf, img.size)
        THEN Goto(BadPtr(r1, "sbuf"), "error_close")
        ELSE IF sh_type # SHT_STRTAB
        THEN [r2 EXCEPT !.fr.sbuf = t.sbuf + SizeofShdr]
        ELSE IF ~ptr_ok(strbase, img.size)
        THEN Goto(BadPtr([r3 EXCEPT !.fr.strbase = strbase], "strbase"), "close")
        ELSE Goto([Reads(r3, <<Rd(60, 2, "e_shnum")>>)
                      EXCEPT !.fr.strbase = strbase, !.fr.sections = e_shnum],
                  "dynscan")

\* lines 167-179 and 204: one turn of the loop that finds the dynamic section
DynscanStep(t, img) ==
    LET r1 == [R0(t) EXCEPT !.fr.sections = t.sections - 1]
        sh_type == View(img, t.sbuf, 4, 4).tag
        dbuf == View(img, t.sbuf, 24, 8).off
        size == View(img, t.sbuf, 32, 8).size
        r2 == Reads(r1, <<Rd(t.sbuf + 4, 4, "sh_type")>>)
        r3 == Reads(r2, <<Rd(t.sbuf + 24, 8, "sh_offset")>>)
    IN  IF t.sections <= 0 THEN Goto(r1, "close")
        ELSE IF ~ptr_ok(t.sbuf, img.size) THEN Goto(BadPtr(r1, "sbuf"), "close")
        ELSE IF sh_type = SHT_NULL THEN Goto(r2, "close")
        ELSE IF sh_type # SHT_DYNAMIC
        THEN [r2 EXCEPT !.fr.sbuf = t.sbuf + SizeofShdr]
        ELSE IF ~ptr_ok(dbuf, img.size)
        THEN Goto(BadPtr([r3 EXCEPT !.fr.dbuf = dbuf], "dbuf"), "close")
        ELSE Goto([Reads(r3, <<Rd(t.sbuf + 32, 8, "sh_size")>>)
                      EXCEPT !.fr.dbuf = dbuf, !.fr.size = size], "rpath")

\* the turn of a loop over the dynamic entries: to the next entry
NextDyn(r) ==
    [r EXCEPT !.fr.size = r.fr.size - SizeofDyn, !.fr.dbuf = r.fr.dbuf + SizeofDyn]

\* the DT_RPATH/DT_RUNPATH loop left at the first entry of another tag
RpathStep_first(t, img) ==
    LET d_tag == View(img, t.dbuf, 0, 8).tag
        searchpath == t.strbase + View(img, t.dbuf, 8, 8).off
        r3 == Reads(R0(t), <<Rd(t.dbuf, 8, "d_tag"), Rd(t.dbuf + 8, 8, "d_ptr")>>)
    IN  IF /\ t.size >= SizeofDyn
           /\ ptr_ok(t.dbuf, img.size)
           /\ d_tag \in {DT_RPATH, DT_RUNPATH}
           /\ ptr_ok(searchpath, img.size)
        THEN NextDyn([r3 EXCEPT !.lib_paths =
                                   storage_add(@, StrAt(img, searchpath))])
        ELSE Goto([R0(t) EXCEPT !.fr.dbuf = View(img, t.sbuf, 24, 8).off,
                                !.fr.size = View(img, t.sbuf, 32, 8).size],
                  "needed")

\* lines 180-192: one turn of the DT_RPATH/DT_RUNPATH loop
RpathStep(t, img) ==
    LET r0 == R0(t)
        d_tag == View(img, t.dbuf, 0, 8).tag
        searchpath == t.strbase + View(img, t.dbuf, 8, 8).off
        r2 == Reads(r0, <<Rd(t.dbuf, 8, "d_tag")>>)
        r3 == Reads(r2, <<Rd(t.dbuf + 8, 8, "d_ptr")>>)
        again == Reads(r0, <<Rd(t.sbuf + 24, 8, "sh_offset"),
                             Rd(t.sbuf + 32, 8, "sh_size")>>)
        needed == Goto([again EXCEPT !.fr.dbuf = View(img, t.sbuf, 24, 8).off,
                                     !.fr.size = View(img, t.sbuf, 32, 8).size],
                       "needed")
    IN  IF t.size < SizeofDyn THEN needed
        ELSE IF ~ptr_ok(t.dbuf, img.size)
        THEN [needed EXCEPT !.warn = <<Diag("bad pointer", "dbuf", t.exe)>>]
        ELSE IF d_tag # DT_RPATH /\ d_tag # DT_RUNPATH THEN NextDyn(r2)
        ELSE IF ~ptr_ok(searchpath, img.size)
        THEN Goto(BadPtr(r3, "searchpath"), "close")
        ELSE NextDyn([Reads(r3, <<RdStr(img, searchpath, "searchpath")>>)
                         EXCEPT !.lib_paths =
                                    storage_add(@, StrAt(img, searchpath))])

\* lines 193-204: one turn of the DT_NEEDED loop
NeededStep(t, img) ==
    LET r0 == R0(t)
        d_tag == View(img, t.dbuf, 0, 8).tag
        lib == t.strbase + View(img, t.dbuf, 8, 8).off
        r2 == Reads(r0, <<Rd(t.dbuf, 8, "d_tag")>>)
        r3 == Reads(r2, <<Rd(t.dbuf + 8, 8, "d_ptr")>>)
        done == Goto([r0 EXCEPT !.fr.sbuf = t.sbuf + SizeofShdr], "dynscan")
    IN  IF t.size < SizeofDyn THEN done
        ELSE IF ~ptr_ok(t.dbuf, img.size)
        THEN [done EXCEPT !.warn = <<Diag("bad pointer", "dbuf", t.exe)>>]
        ELSE IF d_tag # DT_NEEDED THEN NextDyn(r2)
        ELSE IF ~ptr_ok(lib, img.size) THEN Goto(BadPtr(r3, "lib"), "close")
        ELSE NextDyn(copy_libs_for_lib(
                         Reads(r3, <<RdStr(img, lib, "lib")>>), StrAt(img, lib)))

\* ------------------------------------------------------------------ actions

\* the depth of recursion the stack of the process has room for
MaxDepth == 6

top == stack[Len(stack)]
image == File(fsd, top.exe).img
Running(label) == pc = "resolving" /\ stack # <<>> /\ top.pc = label

\* fprintf(stderr, ...) of the warnings, under if (!arg_quiet)
Warn(msgs) == IF arg_quiet = 0 THEN stderr \o msgs ELSE stderr

\* SIGSEGV on a read outside the mapped pages
Segv(img, rs) ==
    /\ pc' = "crashed"
    /\ exitCode' = 139
    /\ oob' = oob \cup OobNames(img, rs)
    /\ UNCHANGED <<env, arg_quiet, fd, libs, lib_paths, stack, stdout, outfile,
                   stderr, nfd, nmap, badMunmap, trace>>

\* The step r of the innermost frame takes effect.
Apply(r) ==
    IF Crashes(image, r.reads) THEN Segv(image, r.reads)
    ELSE /\ oob' = oob \cup OobNames(image, r.reads)
         /\ libs' = r.libs
         /\ lib_paths' = r.lib_paths
         /\ stderr' = Warn(r.warn)
         /\ trace' = trace \o r.calls
         /\ IF r.push # <<>> /\ Len(stack) >= MaxDepth
            THEN /\ pc' = "overflow"
                 /\ exitCode' = 139
                 /\ stack' = stack
            ELSE /\ stack' = [stack EXCEPT ![Len(stack)] = r.fr] \o r.push
                 /\ UNCHANGED <<pc, exitCode>>
         /\ UNCHANGED <<env, arg_quiet, fd, stdout, outfile, nfd, nmap, badMunmap>>

\* usage()
usage == <<"Usage: fldd program [file]\n",
           "print a list of libraries used by program or store it in the file.\n">>

Exit(code, out, err) ==
    /\ pc' = "exited"
    /\ exitCode' = code
    /\ stdout' = stdout \o out
    /\ stderr' = stderr \o err
    /\ UNCHANGED <<env, libs, lib_paths, stack, outfile, oob, nfd, nmap, badMunmap,
                   trace>>

\* -h, --help, -? at line 283
IsHelp(a) == a = "-h" \/ a = "--help" \/ a = "-?"

\* the test of the result of open(argv[2], ...) at line 292
OpenFailed(v) == v = 0

\* main, lines 261-300: to the call copy_libs_for_exe(argv[1])
Main ==
    /\ pc = "start"
    /\ LET argc == Len(argv) + 1
           quiet == IF env_quiet = "yes" THEN 1 ELSE 0
           newfd == IF argc = 3 THEN open_out ELSE STDOUT_FILENO
       IN  IF argc < 2
           THEN /\ Exit(1, usage, <<Diag("invalid arguments", "", "")>>)
                /\ UNCHANGED <<arg_quiet, fd>>
           ELSE IF argv[1] = "--help"
           THEN Exit(0, usage, <<>>) /\ UNCHANGED <<arg_quiet, fd>>
           ELSE IF ~Access(argv[1])
           THEN /\ Exit(1, <<>>, <<Diag("cannot access", "", argv[1])>>)
                /\ UNCHANGED <<arg_quiet, fd>>
           ELSE IF IsHelp(argv[1])
           THEN Exit(0, usage, <<>>) /\ arg_quiet' = quiet /\ UNCHANGED fd
           ELSE IF argc = 3 /\ OpenFailed(newfd)
           THEN /\ Exit(1, usage, <<Diag("invalid arguments", "", "")>>)
                /\ arg_quiet' = quiet
                /\ fd' = newfd
           ELSE /\ arg_quiet' = quiet
                /\ fd' = newfd
                /\ lib_paths' = lib_paths_init
                /\ stack' = <<NewFrame(argv[1])>>
                /\ trace' = <<Call("scan", argv[1])>>
                /\ pc' = "resolving"
                /\ UNCHANGED <<env, exitCode, libs, stdout, outfile, stderr, oob,
                               nfd, nmap, badMunmap>>

\* copy_libs_for_exe, lines 107-130: open, fstat, mmap and the ELF magic
Open ==
    /\ Running("open")
    /\ LET file == File(fsd, top.exe)
           img == file.img
           magic == Rd(0, 4, "e_ident")
           set(fr) == [stack EXCEPT ![Len(stack)] = fr]
       IN  IF ~file.open
           THEN /\ stderr' = Warn(<<Diag("cannot open", "", top.exe)>>)
                /\ stack' = SubSeq(stack, 1, Len(stack) - 1)
                /\ UNCHANGED <<nfd, nmap, oob>>
           ELSE IF ~file.fstat
           THEN /\ stack' = set([top EXCEPT !.f = TRUE, !.pc = "error_close"])
                /\ nfd' = nfd + 1
                /\ UNCHANGED <<stderr, nmap, oob>>
           ELSE IF ~file.mmap \/ img.size = 0
           THEN /\ stack' = set([top EXCEPT !.f = TRUE, !.base = "MAP_FAILED",
                                            !.pc = "error_close"])
                /\ nfd' = nfd + 1
                /\ UNCHANGED <<stderr, nmap, oob>>
           ELSE /\ nfd' = nfd + 1
                /\ nmap' = nmap + 1
                /\ oob' = oob \cup OobNames(img, <<magic>>)
                /\ IF ~img.magic \/ img.size < 4
                   THEN /\ stderr' = Warn(<<Diag("not ELF", "", top.exe)>>)
                        /\ stack' = set([top EXCEPT !.f = TRUE, !.base = "mapped",
                                                    !.pc = "close"])
                   ELSE /\ stack' = set([top EXCEPT
                                !.f = TRUE, !.base = "mapped", !.pc = "phdr",
                                !.e_phnum = HdrVal(img, 56, 2, img.e_phnum),
                                !.pbuf = SizeofEhdr])
                        /\ UNCHANGED stderr
    /\ UNCHANGED <<env, pc, exitCode, arg_quiet, fd, libs, lib_paths, stdout,
                   outfile, badMunmap, trace>>

Phdr == Running("phdr") /\ Apply(PhdrStep(top, image))
Shdr == Running("shdr") /\ Apply(ShdrStart(top, image))
Strtab == Running("strtab") /\ Apply(StrtabStep(top, image))
Dynscan == Running("dynscan") /\ Apply(DynscanStep(top, image))
RpathLoop == Running("rpath") /\ Apply(RpathStep(top, image))
NeededLoop == Running("needed") /\ Apply(NeededStep(top, image))

\* lines 208-209: perror("copy libs"), whatever arg_quiet is
ErrorClose ==
    /\ Running("error_close")
    /\ stderr' = Append(stderr, Diag("perror", "copy libs", top.exe))
    /\ stack' = [stack EXCEPT ![Len(stack)].pc = "close"]
    /\ UNCHANGED <<env, pc, exitCode, arg_quiet, fd, libs, lib_paths, stdout,
                   outfile, oob, nfd, nmap, badMunmap, trace>>

BaseSet_inverted(base) == base = "NULL"

\* the test if (base) at line 211
BaseSet(base) == base # "NULL"

\* lines 210-215: munmap, close and the return to the caller
Close ==
    /\ Running("close")
    /\ IF BaseSet(top.base)
       THEN IF top.base = "mapped"
            THEN nmap' = nmap - 1 /\ UNCHANGED badMunmap
            ELSE badMunmap' = badMunmap + 1 /\ UNCHANGED nmap
       ELSE UNCHANGED <<nmap, badMunmap>>
    /\ nfd' = nfd - 1
    /\ stack' = SubSeq(stack, 1, Len(stack) - 1)
    /\ UNCHANGED <<env, pc, exitCode, arg_quiet, fd, libs, lib_paths, stdout,
                   outfile, stderr, oob, trace>>

\* storage_print: one line per entry, from the head
storage_print(ptr) == [i \in 1..Len(ptr) |-> ptr[i] \o "\n"]

\* main, lines 301-305: the list is printed to fd
PrintLibs ==
    /\ pc = "resolving"
    /\ stack = <<>>
    /\ pc' = "done"
    /\ exitCode' = 0
    /\ stdout' = IF fd = STDOUT_FILENO THEN stdout \o storage_print(libs) ELSE stdout
    /\ outfile' = IF fd > STDOUT_FILENO THEN outfile \o storage_print(libs)
                  ELSE outfile
    /\ UNCHANGED <<env, arg_quiet, fd, libs, lib_paths, stack, stderr, oob, nfd,
                   nmap, badMunmap, trace>>

Next ==
    \/ Main
    \/ Open
    \/ Phdr
    \/ Shdr
    \/ Strtab
    \/ Dynscan
    \/ RpathLoop
    \/ NeededLoop
    \/ ErrorClose
    \/ Close
    \/ PrintLibs

\* ------------------------------------------------------------- the inputs

\* the most dynamic entries of a generated program
MaxDyn == 2

DynAlphabet == {Needed(LibA), Needed(LibB), Rpath(DirD), Runpath(DirE)}
DynSeqs(n) == UNION {[1..k -> DynAlphabet] : k \in 0..n}

Fsd(p, a, b, size, tail, dmg, help) ==
    [p |-> p, a |-> a, b |-> b, size |-> size, tail |-> tail, dmg |-> dmg,
     help |-> help]

World(f, args, quiet, out, adj) ==
    [fsd |-> f, argv |-> args, quiet |-> quiet, out |-> out, adj |-> adj]

\* dependency graphs over P, libA.so and libB.so, cycles included
GraphWorlds ==
    { World(Fsd(p, a, b, OrdSize, 0, 0, FALSE), <<root>>, "NULL", 3, "zero") :
        p \in DynSeqs(MaxDyn),
        a \in {<<>>, <<Needed(LibB)>>, <<Runpath(DirE), Needed(LibB)>>,
               <<Needed(LibA)>>},
        b \in {<<>>, <<Needed(LibA)>>, <<Rpath(DirD), Needed(LibA)>>,
               <<Needed(LibA), Rpath(DirD)>>},
        root \in {ProgP, PathA} }

\* the same files, each filling its last page to the end
AlignedWorlds ==
    { World(Fsd(p, a, <<Needed(LibA)>>, AlignedSize, tail, 0, FALSE),
            <<root>>, "NULL", 3, adj) :
        p \in {<<>>, <<Needed(LibA)>>, <<Rpath(DirD), Needed(LibA)>>},
        a \in {<<>>, <<Needed(LibB)>>},
        tail \in {0, SizeofShdr},
        root \in {ProgP, PathA},
        adj \in {"unmapped", "zero", "junk"} }

\* P needs libA.so, which is damaged, and then libB.so
DamagedWorlds ==
    { World(Fsd(<<Needed(LibA), Needed(LibB)>>, <<>>, <<>>, OrdSize, 0, d, FALSE),
            <<root>>, q, 3, adj) :
        d \in 1..Len(Damaged),
        root \in {ProgP, PathA},
        q \in {"yes", "NULL"},
        adj \in {"unmapped", "junk"} }

\* the command lines
ArgWorlds ==
    { World(Fsd(<<Needed(LibA)>>, <<>>, <<>>, OrdSize, 0, dmg, help),
            args, q, out, "zero") :
        help \in BOOLEAN,
        dmg \in {0, 6},
        args \in {<<>>, <<ProgP>>, <<"/bin/none">>, <<"--help">>, <<"-h">>,
                  <<"-?">>, <<ProgP, "out">>, <<"--help", "out">>,
                  <<"-h", "out">>, <<ProgP, "out", "more">>},
        q \in {"yes", "NULL"},
        out \in {-1, 0, 3} }

Worlds == GraphWorlds \cup AlignedWorlds \cup DamagedWorlds \cup ArgWorlds

Init ==
    /\ \E w \in Worlds :
          /\ fsd = w.fsd
          /\ argv = w.argv
          /\ env_quiet = w.quiet
          /\ open_out = w.out
          /\ adjacent = w.adj
    /\ pc = "start"
    /\ exitCode = -1
    /\ arg_quiet = 0
    /\ fd = STDOUT_FILENO
    /\ libs = <<>>
    /\ lib_paths = <<>>
    /\ stack = <<>>
    /\ stdout = <<>>
    /\ outfile = <<>>
    /\ stderr = <<>>
    /\ oob = {}
    /\ nfd = 0
    /\ nmap = 0
    /\ badMunmap = 0
    /\ trace = <<>>
    /\ prior = <<>>

Spec == Init /\ [][Next]_vars

\* -------------------------------------------------------------- two runs

Final == pc \in {"done", "exited", "crashed"}

\* what a run leaves behind, the diagnostics apart
Outcome ==
    [pc |-> pc, exitCode |-> exitCode, libs |-> libs, lib_paths |-> lib_paths,
     trace |-> trace, stdout |-> stdout, outfile |-> outfile]

\* The program is started again on the same filesystem with the same
\* arguments, FIREJAIL_QUIET switched from unset to "yes" or back.
Rerun ==
    /\ Final
    /\ prior = <<>>
    /\ prior' = <<Outcome>>
    /\ env_quiet' = IF env_quiet = "yes" THEN "NULL" ELSE "yes"
    /\ pc' = "start"
    /\ exitCode' = -1
    /\ arg_quiet' = 0
    /\ fd' = STDOUT_FILENO
    /\ libs' = <<>>
    /\ lib_paths' = <<>>
    /\ stack' = <<>>
    /\ stdout' = <<>>
    /\ outfile' = <<>>
    /\ stderr' = <<>>
    /\ oob' = {}
    /\ nfd' = 0
    /\ nmap' = 0
    /\ badMunmap' = 0
    /\ trace' = <<>>
    /\ UNCHANGED <<fsd, argv, open_out, adjacent>>

TwoRuns == Next \/ Rerun
QuietSpec == Init /\ [][TwoRuns]_vars

\* ------------------------------------------------------------------ claims

Count(list, x) == Cardinality({i \in 1..Len(list) : list[i] = x})
NoDup(list) == \A i, j \in 1..Len(list) : list[i] = list[j] => i = j
DefaultDirs == Range(default_lib_paths)
Pos(list, x) == CHOOSE i \in 1..Len(list) : list[i] = x

\* the dynamic entries of the undamaged file at path
DynOf(path) ==
    IF path = ProgP THEN fsd.p
    ELSE IF path \in {PathA, DirD \o "/" \o LibA, DirE \o "/" \o LibA} THEN fsd.a
    ELSE IF path \in {PathB, DirE \o "/" \o LibB} THEN fsd.b
    ELSE <<>>
Declares(path, dir) ==
    /\ fsd.dmg = 0
    /\ \E i \in 1..Len(DynOf(path)) :
          DynOf(path)[i] \in {Rpath(dir), Runpath(dir)}

\* the diagnostics of the recoverable failures
Recoverable == {"cannot open", "perror", "not ELF", "bad pointer", "cannot find"}
HadFailure == \E i \in 1..Len(stderr) : stderr[i].kind \in Recoverable

\* what main wrote as its result
Emitted == IF Len(argv) = 2 THEN outfile ELSE stdout

\* C1: on every filesystem, damaged files included, the resolution started
\* by copy_libs_for_exe on the root program returns to main and storage_print
\* is reached: the process is never ended inside the recursion, neither by a
\* signal nor by a call stack that outgrows every bound.
C1_ResolutionTerminates == pc \notin {"crashed", "overflow"}

\* A run started on libA.so, where libA.so needs libB.so and libB.so needs
\* libA.so, both found through the registry.
IsCycle ==
    /\ argv = <<PathA>>
    /\ fsd.dmg = 0
    /\ fsd.a = <<Needed(LibB)>>
    /\ fsd.b = <<Needed(LibA)>>

\* C2: cycle safety: a run started on A, with A and B needing each other,
\* terminates, and once storage_print is reached the Dependency Set holds
\* exactly one entry for A's path and exactly one for B's path.
C2_CycleSafety ==
    IsCycle =>
        /\ pc \notin {"crashed", "overflow"}
        /\ pc = "done" => Count(libs, PathA) = 1 /\ Count(libs, PathB) = 1

\* C3: in every reachable state neither libs nor lib_paths holds two equal
\* strings.
C3_NoDuplicates == NoDup(libs) /\ NoDup(lib_paths)

\* a program that names the same RPATH twice was resolved to the end
C3_Witness ==
    /\ pc = "done"
    /\ argv = <<ProgP>>
    /\ fsd.p = <<Rpath(DirD), Rpath(DirD)>>
    /\ Count(lib_paths, DirD) = 1
    /\ Len(lib_paths) < Len(default_lib_paths) + 1

\* The innermost frame is about to resolve the DT_NEEDED name n of a binary
\* that declares the directory dir, not a default one, and n is readable
\* both in dir and in a default directory.
Resolving(dir, n) ==
    /\ Running("needed")
    /\ top.size >= SizeofDyn
    /\ ptr_ok(top.dbuf, image.size)
    /\ Cell(image, top.dbuf).tag = DT_NEEDED
    /\ StrAt(image, top.strbase + Cell(image, top.dbuf).off) = n
    /\ Declares(top.exe, dir)
    /\ dir \notin DefaultDirs
    /\ Access(dir \o "/" \o n)
    /\ \E def \in DefaultDirs : Access(def \o "/" \o n)

\* the step resolves to path: path is the entry the step adds, or it was in
\* the Dependency Set and the step adds nothing
Yields(path) ==
    \/ libs' = <<path>> \o libs
    \/ libs' = libs /\ storage_find(libs, path)

\* C4 as stated: resolving such a name adds dir/n, not the default
\* directory's file, to the Dependency Set.
C4_PriorityAsStated ==
    [][\A dir \in {DirD, DirE}, n \in {LibA, LibB} :
          Resolving(dir, n) => Yields(dir \o "/" \o n)]_vars

\* C4, amended: resolving such a name never yields the default directory's
\* file: it yields dir/n, unless a directory inserted into the registry
\* after dir also holds a readable n, and then the file of such a directory.
C4_Priority ==
    [][\A dir \in {DirD, DirE}, n \in {LibA, LibB} :
          Resolving(dir, n) =>
              /\ storage_find(lib_paths, dir)
              /\ \E x \in Range(lib_paths) \ DefaultDirs :
                    /\ Pos(lib_paths, x) <= Pos(lib_paths, dir)
                    /\ Access(x \o "/" \o n)
                    /\ Yields(x \o "/" \o n)
              /\ (\A i \in 1..(Pos(lib_paths, dir) - 1) :
                      ~Access(lib_paths[i] \o "/" \o n))
                 => Yields(dir \o "/" \o n)]_vars

\* P declares /opt/D and needs libA.so, which is in /opt/D and in /usr/lib:
\* the run ended with /opt/D/libA.so and without /usr/lib/libA.so
C4_Witness ==
    /\ pc = "done"
    /\ argv = <<ProgP>>
    /\ fsd.p = <<Rpath(DirD), Needed(LibA)>>
    /\ fsd.a = <<>>
    /\ fsd.dmg = 0
    /\ storage_find(libs, DirD \o "/" \o LibA)
    /\ ~storage_find(libs, PathA)

\* C5: every byte copy_libs_for_exe reads from an image lies inside the
\* mapped region [base, end).
C5_ReadsInBounds == oob = {}

\* C6: the descriptor of every frame that opened one is closed exactly once,
\* munmap is called exactly on established mappings, and after the
\* top-level call returned no descriptor and no mapping remains.
C6_ScopedRelease ==
    /\ badMunmap = 0
    /\ nfd = Cardinality({i \in 1..Len(stack) : stack[i].f})
    /\ nmap = Cardinality({i \in 1..Len(stack) : stack[i].base = "mapped"})
    /\ (stack = <<>> => nfd = 0 /\ nmap = 0)

\* C7: no recoverable failure aborts the run: after one, the run is not
\* ended before storage_print, and storage_print emits the accumulated set
\* with exit code 0.
C7_PartialResult ==
    HadFailure =>
        /\ pc \in {"resolving", "done"}
        /\ pc = "done" => exitCode = 0 /\ Emitted = storage_print(libs)

\* C8: when the output file cannot be opened, main exits with code 1 before
\* any resolution and emits nothing.
C8_OutputOpenFatal ==
    fd < 0 =>
        /\ pc = "exited"
        /\ exitCode = 1
        /\ libs = <<>>
        /\ stack = <<>>
        /\ outfile = <<>>

\* C9: for a first argument --help, -h or -?, main prints the usage text and
\* exits with code 0, whether or not a readable file of that name exists.
C9_HelpExitsZero ==
    (pc # "start" /\ Len(argv) >= 1 /\ IsHelp(argv[1])) =>
        pc = "exited" /\ exitCode = 0 /\ stdout = usage

\* C10: with quiet mode active no diagnostic of a recoverable failure is
\* written to the diagnostic stream.
C10_QuietNoDiagnostics == arg_quiet = 1 => ~HadFailure

\* C11: quiet-mode noninterference: the second of two runs that differ only
\* in quiet mode makes the calls of the first in the same order and ends
\* with the same lists, the same result lines and the same exit code.
C11_QuietNoninterference ==
    prior # <<>> =>
        /\ Len(trace) <= Len(prior[1].trace)
        /\ trace = SubSeq(prior[1].trace, 1, Len(trace))
        /\ Final => Outcome = prior[1]

\* the quiet second run of a program whose libA.so is no ELF file is over
C11_Witness ==
    /\ prior # <<>>
    /\ pc = "done"
    /\ arg_quiet = 1
    /\ argv = <<ProgP>>
    /\ fsd.dmg = 6
    /\ stderr = <<>>
    /\ Len(libs) = 2

\* the strings the run handles, and one it never sees
Strings == Range(libs) \cup Range(lib_paths) \cup {DirD, DirE, PathA, "/new"}

\* C12: idempotent insertion: on either list, adding a string twice gives
\* the list that adding it once gives, and adding a string that is present
\* gives the list itself, every entry at its place.
C12_IdempotentInsertion ==
    \A s \in {libs, lib_paths} : \A x \in Strings :
        /\ storage_add(storage_add(s, x), x) = storage_add(s, x)
        /\ storage_find(s, x) => storage_add(s, x) = s

\* a program that names the directory /opt/E twice was resolved: the second
\* storage_add found it present, behind nothing, and left the list as it was
C12_Witness ==
    /\ pc = "done"
    /\ argv = <<ProgP>>
    /\ fsd.p = <<Runpath(DirE), Runpath(DirE)>>
    /\ Head(lib_paths) = DirE
    /\ Tail(lib_paths) = lib_paths_init
    /\ storage_add(lib_paths, DirE) = lib_paths

\* P, whose interpreter is ld-linux, needs libA.so alone, found in /usr/lib,
\* and libA.so needs nothing; the list goes to standard output
IsPLC ==
    /\ argv = <<ProgP>>
    /\ fsd.p = <<Needed(LibA)>>
    /\ fsd.a = <<>>
    /\ fsd.dmg = 0

\* C13: output order: storage_print emits exactly the entries of the
\* Dependency Set, one per line, the most recently added first; the run on
\* P ends with exit code 0 and exactly two lines, the path of libA.so and
\* then the interpreter.
C13_OutputOrder ==
    /\ pc = "done" =>
          /\ Len(Emitted) = Len(libs)
          /\ \A i \in 1..Len(libs) : Emitted[i] = libs[i] \o "\n"
    /\ (IsPLC /\ Final) =>
          /\ pc = "done"
          /\ exitCode = 0
          /\ stdout = <<PathA \o "\n", Interp \o "\n">>

\* The innermost frame is about to call copy_libs_for_lib(LibName).
CallsLib ==
    /\ Running("needed")
    /\ NeededStep(top, image).calls # <<>>
    /\ ~Crashes(image, NeededStep(top, image).reads)
LibName == StrAt(image, top.strbase + View(image, top.dbuf, 8, 8).off)
\* the place in the registry of the first directory that holds LibName
\* (0: none does), and the file there
HitAt ==
    IF \E i \in 1..Len(lib_paths) : Access(lib_paths[i] \o "/" \o LibName)
    THEN CHOOSE i \in 1..Len(lib_paths) :
            /\ Access(lib_paths[i] \o "/" \o LibName)
            /\ \A j \in 1..(i - 1) : ~Access(lib_paths[j] \o "/" \o LibName)
    ELSE 0
HitFile == lib_paths[HitAt] \o "/" \o LibName
\* the calls the step makes
NewCalls == SubSeq(trace', Len(trace) + 1, Len(trace'))

\* C14 as stated: the membership check comes before the registry search:
\* for a dependency that is in the Dependency Set the call returns at once,
\* no directory searched, nothing inserted, nothing scanned.
C14_GuardFirstAsStated ==
    [][(CallsLib /\ HitAt # 0 /\ storage_find(libs, HitFile)) =>
          /\ trace' = trace
          /\ libs' = libs
          /\ Len(stack') = Len(stack)]_vars

\* C14, amended: the registry is searched first, from its head to the first
\* directory with a readable file of the name; only then is that file looked
\* up in the Dependency Set: if it is there nothing is inserted and nothing
\* scanned, otherwise it becomes the head of the set and is scanned; when no
\* directory holds the name every directory was searched and nothing else
\* happens.
C14_GuardAfterSearch ==
    [][CallsLib =>
          LET k == IF HitAt = 0 THEN Len(lib_paths) ELSE HitAt
          IN  /\ Len(trace') >= Len(trace) + k
              /\ SubSeq(trace', 1, Len(trace)) = trace
              /\ \A i \in 1..k :
                     NewCalls[i] = Call("access", lib_paths[i] \o "/" \o LibName)
              /\ HitAt = 0 =>
                     /\ Len(NewCalls) = k
                     /\ libs' = libs
                     /\ Len(stack') = Len(stack)
              /\ (HitAt # 0 /\ storage_find(libs, HitFile)) =>
                     /\ NewCalls[k + 1] = Call("storage_find", HitFile)
                     /\ Len(NewCalls) = k + 1
                     /\ libs' = libs
                     /\ Len(stack') = Len(stack)
              /\ (HitAt # 0 /\ ~storage_find(libs, HitFile)) =>
                     /\ NewCalls[k + 1] = Call("storage_find", HitFile)
                     /\ NewCalls[k + 2] = Call("scan", HitFile)
                     /\ Len(NewCalls) = k + 2
                     /\ libs' = <<HitFile>> \o libs
                     /\ Len(stack') = Len(stack) + 1
                     /\ stack'[Len(stack')].exe = HitFile]_vars

\* libB.so named libA.so, which was in the Dependency Set: the registry was
\* searched, and the last call of the run is the lookup that found it there
C14_Witness ==
    /\ pc = "done"
    /\ argv = <<ProgP>>
    /\ fsd.p = <<Needed(LibA)>>
    /\ fsd.a = <<Needed(LibB)>>
    /\ fsd.b = <<Needed(LibA)>>
    /\ fsd.dmg = 0
    /\ trace[Len(trace)] = Call("storage_find", PathA)
    /\ trace[Len(trace) - 1] = Call("access", PathA)
    /\ Count(libs, PathA) = 1

\* C15: at every point of a run at most one image is mapped and at most one
\* descriptor is open, however deep the recursion is.
C15_OneMapping == nmap <= 1 /\ nfd <= 1

\* the program headers of the image before the one pbuf points to
HeadersBefore(img, pbuf) ==
    {a \in DOMAIN img.mem : \E i \in 1..img.e_phnum : a = PhAddr(i) /\ a < pbuf}

\* C16: the program-header walk stops at the first PT_INTERP entry: no
\* program header after it is read, and of several PT_INTERP entries only
\* the path of the first is added to the Dependency Set.
C16_FirstInterpOnly ==
    /\ ~storage_find(libs, Interp2)
    /\ (Running("phdr") /\ top.e_phnum > 0) =>
          \A a \in HeadersBefore(image, top.pbuf) : image.mem[a].tag # PT_INTERP

\* the calls of copy_libs_for_exe made so far, in order
Scans == SelectSeq(trace, LAMBDA c : c.ev = "scan")

\* the DT_RPATH/DT_RUNPATH directories of the section being scanned
Declared == {dir \in {DirD, DirE} : Declares(top.exe, dir)}

NonElf ==
    LET file == File(fsd, top.exe)
    IN  /\ file.open /\ file.fstat /\ file.mmap
        /\ file.img.size > 0
        /\ ~file.img.magic

\* C18: copy_libs_for_exe on a readable file that is no ELF image prints
\* the not-an-ELF diagnostic (unless quiet), goes to the release of the
\* mapping and the descriptor, and returns to its caller, which is at its
\* next DT_NEEDED entry; libs and lib_paths are as they were and the run
\* goes on.
C18_NonElfSkipped ==
    [][/\ (Running("open") /\ NonElf) =>
            /\ stderr' = IF arg_quiet = 0
                         THEN Append(stderr, Diag("not ELF", "", top.exe))
                         ELSE stderr
            /\ Len(stack') = Len(stack)
            /\ stack'[Len(stack)].pc = "close"
            /\ nfd' = nfd + 1 /\ nmap' = nmap + 1
            /\ libs' = libs /\ lib_paths' = lib_paths
            /\ pc' = "resolving"
       /\ (Running("close") /\ NonElf) =>
            /\ nfd' = nfd - 1 /\ nmap' = nmap - 1 /\ badMunmap' = badMunmap
            /\ stack' = SubSeq(stack, 1, Len(stack) - 1)
            /\ stack' # <<>> => stack'[Len(stack')].pc = "needed"
            /\ libs' = libs /\ lib_paths' = lib_paths /\ stderr' = stderr
            /\ pc' = "resolving"]_vars

\* libA.so was no ELF file: it was skipped with the diagnostic, and the
\* program went on to libB.so
C18_Witness ==
    /\ pc = "done"
    /\ argv = <<ProgP>>
    /\ fsd.dmg = 6
    /\ stderr = <<Diag("not ELF", "", PathA)>>
    /\ libs = <<PathB, PathA, Interp>>
    /\ nfd = 0 /\ nmap = 0

\* the index, counted from e_shoff, of the section header sbuf points to
ShIndex(img, sbuf) == (sbuf - img.e_shoff) \div SizeofShdr

\* C19: the scan for the dynamic section examines only headers of the
\* declared table: whenever it is about to read the header at sbuf, the
\* index of that header is below e_shnum.
C19_ScanInsideTable ==
    (Running("dynscan") /\ top.sections > 0 /\ ptr_ok(top.sbuf, image.size)) =>
        ShIndex(image, top.sbuf) < image.e_shnum

\* C20: in one run copy_libs_for_exe is called at most once for every file
\* path, the root program given on the command line included.
C20_ScanOnce == NoDup(Scans)

====
